---- MODULE Spec2Model ----
(***************************************************************************)
(* A model of bazelisk.py: version selection, resolution of "latest"       *)
(* labels against a time-stamped release cache, download of the binary    *)
(* and the interrupt-tolerant launch of the child process.                 *)
(*                                                                         *)
(* Strings are sequences of one-character strings, so that substring      *)
(* tests, the LATEST_PATTERN match, strip(), json.dumps and json.loads    *)
(* are computed the way the code computes them.  Paths of the directory   *)
(* walk are sequences of path components (the root is the empty one).     *)
(***************************************************************************)
EXTENDS Integers, Sequences, FiniteSets, TLC

\* ------------------------------------------------------------------ bounds

\* The clock reads multiples of ONE_HOUR up to MaxTick hours (and the second
\* just before each), so that ages just below, at and above one hour occur.
MaxTick == 2

\* Depth of the deepest directory the tool is started in.
MaxDepth == 2

\* Number of KeyboardInterrupts delivered during one execute_bazel call.
MaxInterrupts == 3

\* ------------------------------------------------------- program constants

ONE_HOUR == 3600

MODE_0755 == 493

\* Exit statuses are one byte wide on POSIX.
EXIT_WIDTH == 256

\* ----------------------------------------------------------------- strings

Digits == {"0", "1", "2", "3", "4", "5", "6", "7", "8", "9"}

Whitespace == {" ", "\t", "\n", "\r"}

DigitVal(c) ==
  CASE c = "0" -> 0 [] c = "1" -> 1 [] c = "2" -> 2 [] c = "3" -> 3
    [] c = "4" -> 4 [] c = "5" -> 5 [] c = "6" -> 6 [] c = "7" -> 7
    [] c = "8" -> 8 [] c = "9" -> 9

DigitChar(d) ==
  CASE d = 0 -> "0" [] d = 1 -> "1" [] d = 2 -> "2" [] d = 3 -> "3"
    [] d = 4 -> "4" [] d = 5 -> "5" [] d = 6 -> "6" [] d = 7 -> "7"
    [] d = 8 -> "8" [] d = 9 -> "9"

\* int(s) for a non-empty string of decimal digits.
RECURSIVE int(_)
int(s) ==
  IF Len(s) = 0 THEN 0
  ELSE 10 * int(SubSeq(s, 1, Len(s) - 1)) + DigitVal(s[Len(s)])

\* '{}'.format(n) for a non-negative integer n.
RECURSIVE format_int(_)
format_int(n) ==
  IF n < 10 THEN <<DigitChar(n)>>
  ELSE format_int(n \div 10) \o <<DigitChar(n % 10)>>

\* sub in s
Contains(sub, s) ==
  \E i \in 1..(Len(s) - Len(sub) + 1) : SubSeq(s, i, i + Len(sub) - 1) = sub

\* s.strip(): leading and trailing whitespace removed.
RECURSIVE lstrip(_)
lstrip(s) ==
  IF Len(s) > 0 /\ s[1] \in Whitespace THEN lstrip(Tail(s)) ELSE s

RECURSIVE rstrip(_)
rstrip(s) ==
  IF Len(s) > 0 /\ s[Len(s)] \in Whitespace
  THEN rstrip(SubSeq(s, 1, Len(s) - 1)) ELSE s

strip(s) == rstrip(lstrip(s))

S_latest == <<"l", "a", "t", "e", "s", "t">>

\* ---------------------------------------------------------- LATEST_PATTERN

\* The regex '$' (no MULTILINE): at the end of the string, or just before a
\* newline that is the last character.  i is the next position to consume.
AtDollar(s, i) ==
  \/ i = Len(s) + 1
  \/ i = Len(s) /\ s[i] = "\n"

\* LATEST_PATTERN.match(version): r'latest(-(?P<offset>\d+))?$' anchored at
\* the start.  The result is [matched, offset], offset being the text of the
\* named group (empty when the group did not take part in the match).
LATEST_PATTERN_match(version) ==
  LET n == Len(S_latest)
      hasPrefix == Len(version) >= n /\ SubSeq(version, 1, n) = S_latest
      \* ends j of a digit run that starts right after "latest-"
      runs == IF hasPrefix /\ Len(version) >= n + 2 /\ version[n + 1] = "-"
              THEN {j \in (n + 2)..Len(version) :
                      /\ \A k \in (n + 2)..j : version[k] \in Digits
                      /\ AtDollar(version, j + 1)}
              ELSE {}
  IN  IF runs # {}
      THEN LET j == CHOOSE r \in runs : \A q \in runs : q <= r
           IN  [matched |-> TRUE, offset |-> SubSeq(version, n + 2, j)]
      ELSE IF hasPrefix /\ AtDollar(version, n + 1)
           THEN [matched |-> TRUE, offset |-> <<>>]
           ELSE [matched |-> FALSE, offset |-> <<>>]

\* -------------------------------------------------------------------- json

Quote == "\""

\* json.dumps(history) for a list of strings without special characters:
\* '["a", "b"]'.
RECURSIVE json_items(_)
json_items(history) ==
  IF Len(history) = 0 THEN <<>>
  ELSE <<Quote>> \o history[1] \o <<Quote>>
       \o (IF Len(history) > 1 THEN <<",", " ">> ELSE <<>>)
       \o json_items(Tail(history))

json_dumps(history) == <<"[">> \o json_items(history) \o <<"]">>

\* json.loads(text) for the same fragment of JSON.  [ok, value]: ok is FALSE
\* where json.loads raises ValueError (empty text, trailing data, a missing
\* bracket, quote or comma).
RECURSIVE skip_ws(_, _)
skip_ws(s, i) ==
  IF i <= Len(s) /\ s[i] \in Whitespace THEN skip_ws(s, i + 1) ELSE i

\* position of the closing quote of a string whose body starts at i; 0 if none
RECURSIVE string_end(_, _)
string_end(s, i) ==
  IF i > Len(s) THEN 0
  ELSE IF s[i] = Quote THEN i
  ELSE string_end(s, i + 1)

\* parse items from position i (just after '[' or ','); acc so far
RECURSIVE parse_items(_, _, _)
parse_items(s, i, acc) ==
  LET a == skip_ws(s, i)
  IN  IF a > Len(s) \/ s[a] # Quote THEN [ok |-> FALSE, value |-> <<>>]
      ELSE LET e == string_end(s, a + 1)
           IN  IF e = 0 THEN [ok |-> FALSE, value |-> <<>>]
               ELSE LET item == SubSeq(s, a + 1, e - 1)
                        b == skip_ws(s, e + 1)
                    IN  IF b > Len(s) THEN [ok |-> FALSE, value |-> <<>>]
                        ELSE IF s[b] = ","
                             THEN parse_items(s, b + 1, Append(acc, item))
                        ELSE IF s[b] = "]" /\ skip_ws(s, b + 1) = Len(s) + 1
                             THEN [ok |-> TRUE, value |-> Append(acc, item)]
                        ELSE [ok |-> FALSE, value |-> <<>>]

json_loads(text) ==
  LET a == skip_ws(text, 1)
  IN  IF a > Len(text) \/ text[a] # "[" THEN [ok |-> FALSE, value |-> <<>>]
      ELSE LET b == skip_ws(text, a + 1)
           IN  IF b <= Len(text) /\ text[b] = "]"
               THEN [ok |-> skip_ws(text, b + 1) = Len(text) + 1, value |-> <<>>]
               ELSE parse_items(text, a + 1, <<>>)

\* ---------------------------------------------------------------- versions

V_0_9 == <<"0", ".", "9">>

V_0_10 == <<"0", ".", "1", "0">>

V_1_0 == <<"1", ".", "0">>

V_1_1 == <<"1", ".", "1">>

\* LooseVersion(vstring).version for a dotted numeric version: the list of
\* its numeric components.
RECURSIVE version_components(_, _)
version_components(s, cur) ==
  IF Len(s) = 0 THEN <<int(cur)>>
  ELSE IF s[1] = "." THEN <<int(cur)>> \o version_components(Tail(s), <<>>)
  ELSE version_components(Tail(s), Append(cur, s[1]))

LooseVersion(vstring) == version_components(vstring, <<>>)

\* Python's list comparison a < b.
RECURSIVE list_less(_, _)
list_less(a, b) ==
  IF Len(b) = 0 THEN FALSE
  ELSE IF Len(a) = 0 THEN TRUE
  ELSE IF a[1] # b[1] THEN a[1] < b[1]
  ELSE list_less(Tail(a), Tail(b))

\* sorted(versions, reverse=True) under the LooseVersion order.
RECURSIVE insert_desc(_, _)
insert_desc(v, sortedSeq) ==
  IF Len(sortedSeq) = 0 THEN <<v>>
  ELSE IF list_less(LooseVersion(sortedSeq[1]), LooseVersion(v))
       THEN <<v>> \o sortedSeq
       ELSE <<sortedSeq[1]>> \o insert_desc(v, Tail(sortedSeq))

RECURSIVE sorted_desc(_)
sorted_desc(versions) ==
  IF Len(versions) = 0 THEN <<>>
  ELSE insert_desc(versions[Len(versions)],
                   sorted_desc(SubSeq(versions, 1, Len(versions) - 1)))

RECURSIVE tags_of_releases(_)
tags_of_releases(releases) ==
  IF Len(releases) = 0 THEN <<>>
  ELSE (IF releases[1].prerelease THEN <<>> ELSE <<releases[1].tag_name>>)
       \o tags_of_releases(Tail(releases))

Release(tag, pre) == [tag_name |-> tag, prerelease |-> pre]

\* What the release endpoint may answer: a list of releases, or a failure of
\* urlopen (URLError), of json.loads (ValueError) or of a release lacking a
\* key (KeyError).
RemoteResponses ==
  { [error |-> "none", releases |-> <<Release(V_0_9, FALSE), Release(V_1_1, TRUE),
                                      Release(V_0_10, FALSE)>>],
    [error |-> "none", releases |-> <<Release(V_0_10, FALSE), Release(V_1_0, FALSE),
                                      Release(V_0_9, FALSE)>>],
    [error |-> "none", releases |-> <<Release(V_1_0, FALSE)>>],
    [error |-> "none", releases |-> <<>>],
    [error |-> "URLError", releases |-> <<>>],
    [error |-> "ValueError", releases |-> <<>>],
    [error |-> "KeyError", releases |-> <<>>] }

\* get_version_history_from_github on a response that was read and parsed.
get_version_history_from_github(res) ==
  sorted_desc(tags_of_releases(res.releases))

\* Histories the program itself can have written to the cache.
Histories ==
  {get_version_history_from_github(r) : r \in {x \in RemoteResponses : x.error = "none"}}

\* ------------------------------------------------------------------ labels

L_latest_0 == S_latest \o <<"-", "0">>

L_latest_1 == S_latest \o <<"-", "1">>

L_latest_02 == S_latest \o <<"-", "0", "2">>

L_latest_3 == S_latest \o <<"-", "3">>

L_latest_nl == S_latest \o <<"\n">>

L_latest_1_nl == S_latest \o <<"-", "1", "\n">>

L_latest2 == S_latest \o <<"2">>

L_latest_dash == S_latest \o <<"-">>

L_latest_1x == S_latest \o <<"-", "1", "x">>

L_xlatest == <<"x">> \o S_latest

L_0_20_0 == <<"0", ".", "2", "0", ".", "0">>

L_0_20_0rc1 == <<"0", ".", "2", "0", ".", "0", "r", "c", "1">>

L_late == <<"l", "a", "t", "e">>

L_empty == <<>>

LatestLabels ==
  {S_latest, L_latest_0, L_latest_1, L_latest_02, L_latest_3, L_latest_nl,
   L_latest_1_nl, L_latest2, L_latest_dash, L_latest_1x, L_xlatest}

LiteralLabels == {L_0_20_0, L_0_20_0rc1, L_late, L_empty, V_1_0}

Labels == LatestLabels \cup LiteralLabels

\* ------------------------------------------------------------------- state

VARIABLES
  environ,     \* os.environ: USE_BAZEL_VERSION, [set, val]
  fsys,        \* the directory tree: [cwd, ws, bv]
  sel,         \* decide_which_bazel_version_to_use: [pc, root, out, probed, readbv]
  cache,       \* the file <bazelisk_directory>/latest_bazel: [exists, content, mtime],
               \* and which invocation wrote it last (0: an earlier one)
  now,         \* the wall clock, time.time()
  rp,          \* per invocation, resolve_version_label_to_number's frame
  prev,        \* how the previous get_version_history call of invocation 1 ended
  platform,    \* platform.machine() and platform.system()
  bin,         \* the files of <bazelisk_directory>/bin: name -> [content, mode]
  dl,          \* download_bazel_into_directory's frame
  child,       \* the launched Bazel process: [state, code]
  ex,          \* execute_bazel's frame
  stage,       \* where main is
  trace,       \* the stages main has started, in order
  exitStatus   \* the exit status of the tool's process (-1 while it runs)

selVars == <<environ, fsys, sel>>

resVars == <<cache, now, rp, prev>>

dlVars == <<platform, bin, dl>>

exVars == <<child, ex>>

mainVars == <<stage, trace, exitStatus>>

vars == <<environ, fsys, sel, cache, now, rp, prev, platform, bin, dl,
          child, ex, stage, trace, exitStatus>>

\* ---------------------------------------------------------------- resolver

Procs == {1, 2}

\* The clock's readings.
Times ==
  {k * ONE_HOUR : k \in 0..MaxTick} \cup {k * ONE_HOUR + (ONE_HOUR - 1) : k \in 0..MaxTick}

NoFile == [exists |-> FALSE, content |-> <<>>, mtime |-> 0, writer |-> 0]

\* A result: a returned string (kind "ok") or the exception raised.  value is
\* the returned string, or the version the message quotes; count is the
\* number of releases the message quotes.
Result(kind, value, count) == [kind |-> kind, value |-> value, count |-> count]

NoResult == Result("none", <<>>, 0)

IdleFrame ==
  [pc |-> "idle", version |-> <<>>, offset |-> <<>>, history |-> <<>>,
   t |-> 0, result |-> NoResult, net |-> 0, ops |-> {}, pre |-> NoFile,
   neterr |-> "none", fetched |-> <<>>, returned |-> FALSE]

abs(x) == IF x < 0 THEN 0 - x ELSE x

\* A faulty variant of is_fresh: the comparison lets an age of exactly one hour pass as fresh.
is_fresh_mut(t, mtime) == abs(t - mtime) <= ONE_HOUR

\* line 94: abs(time.time() - os.path.getmtime(latest_cache)) < ONE_HOUR
is_fresh(t, mtime) == abs(t - mtime) < ONE_HOUR

\* A faulty variant of contains_latest: only the first four letters of the label are looked at.
contains_latest_mut(version) ==
  Len(version) >= 4 /\ SubSeq(version, 1, 4) = SubSeq(S_latest, 1, 4)

\* line 75: 'latest' in version
contains_latest(version) == Contains(S_latest, version)

\* A faulty variant of resolve_latest_version: the history is indexed from its oldest end.
resolve_latest_version_mut(version_history, offset) ==
  IF offset >= Len(version_history)
  THEN Result("VersionOffsetOutOfRange",
              IF offset # 0 THEN S_latest \o <<"-">> \o format_int(offset) ELSE S_latest,
              Len(version_history))
  ELSE Result("ok", version_history[Len(version_history) - offset], 0)

\* lines 113-120
resolve_latest_version(version_history, offset) ==
  IF offset >= Len(version_history)
  THEN Result("VersionOffsetOutOfRange",
              IF offset # 0 THEN S_latest \o <<"-">> \o format_int(offset) ELSE S_latest,
              Len(version_history))
  ELSE Result("ok", version_history[offset + 1], 0)

\* f.write(data) on a file opened with 'w' by this writer: the buffered text
\* goes out at the writer's offset 0 when the file is closed, over whatever
\* the file holds by then.
file_write(content, data) ==
  data \o SubSeq(content, Len(data) + 1, Len(content))

\* A new invocation of resolve_version_label_to_number(bazelisk_directory, version).
resolve_call(p, labels) ==
  /\ rp[p].pc = "idle"
  /\ \E version \in labels :
       rp' = [rp EXCEPT ![p] = [IdleFrame EXCEPT !.pc = "resolve",
                                                 !.version = version,
                                                 !.pre = cache]]
  /\ UNCHANGED <<cache, now, prev>>

\* lines 75-81 and 87
resolve_version_label_to_number(p) ==
  /\ rp[p].pc = "resolve"
  /\ LET version == rp[p].version
         match == LATEST_PATTERN_match(version)
     IN  rp' = [rp EXCEPT ![p] =
           IF contains_latest(version)
           THEN IF ~match.matched
                THEN [@ EXCEPT !.pc = "done",
                               !.result = Result("InvalidVersionLabel", version, 0)]
                ELSE [@ EXCEPT !.pc = "gvh_exists", !.offset = match.offset]
           ELSE [@ EXCEPT !.pc = "done", !.result = Result("ok", version, 0)]]
  /\ UNCHANGED <<cache, now, prev>>

\* line 93: os.path.exists(latest_cache)
gvh_exists(p) ==
  /\ rp[p].pc = "gvh_exists"
  /\ rp' = [rp EXCEPT ![p] =
        [@ EXCEPT !.pc = IF cache.exists THEN "gvh_mtime" ELSE "gvh_fetch",
                  !.ops = @ \cup {"exists"}]]
  /\ UNCHANGED <<cache, now, prev>>

\* line 94
gvh_mtime(p) ==
  /\ rp[p].pc = "gvh_mtime"
  /\ rp' = [rp EXCEPT ![p] =
        [@ EXCEPT !.pc = IF is_fresh(now, cache.mtime) THEN "gvh_read" ELSE "gvh_fetch",
                  !.t = now,
                  !.ops = @ \cup {"getmtime"}]]
  /\ UNCHANGED <<cache, now, prev>>

\* lines 95-96: json.loads(f.read().strip())
gvh_read(p) ==
  /\ rp[p].pc = "gvh_read"
  /\ LET parsed == json_loads(strip(cache.content))
     IN  rp' = [rp EXCEPT ![p] =
           IF parsed.ok
           THEN [@ EXCEPT !.pc = "index", !.history = parsed.value,
                          !.returned = TRUE, !.ops = @ \cup {"read"}]
           ELSE [@ EXCEPT !.pc = "done", !.result = Result("ValueError", <<>>, 0),
                          !.ops = @ \cup {"read"}]]
  /\ UNCHANGED <<cache, now, prev>>

\* A faulty variant of after_fetch: a failed fetch falls back to the cache file that is there.
after_fetch_mut(f, res) ==
  IF res.error # "none"
  THEN IF cache.exists
       THEN [f EXCEPT !.pc = "gvh_read"]
       ELSE [f EXCEPT !.pc = "done", !.result = Result(res.error, <<>>, 0)]
  ELSE [f EXCEPT !.pc = "gvh_open",
                 !.fetched = get_version_history_from_github(res),
                 !.history = get_version_history_from_github(res)]

\* line 98: what get_version_history does with the outcome of
\* get_version_history_from_github: an exception is not caught
after_fetch(f, res) ==
  IF res.error # "none"
  THEN [f EXCEPT !.pc = "done", !.result = Result(res.error, <<>>, 0)]
  ELSE [f EXCEPT !.pc = "gvh_open",
                 !.fetched = get_version_history_from_github(res),
                 !.history = get_version_history_from_github(res)]

\* line 98 and lines 104-110
gvh_fetch(p) ==
  /\ rp[p].pc = "gvh_fetch"
  /\ \E res \in RemoteResponses :
       rp' = [rp EXCEPT ![p] =
                after_fetch([@ EXCEPT !.net = @ + 1, !.neterr = res.error], res)]
  /\ UNCHANGED <<cache, now, prev>>

\* line 99: open(latest_cache, 'w') creates or truncates the file
gvh_open(p) ==
  /\ rp[p].pc = "gvh_open"
  /\ cache' = [exists |-> TRUE, content |-> <<>>, mtime |-> now, writer |-> p]
  /\ rp' = [rp EXCEPT ![p] = [@ EXCEPT !.pc = "gvh_write", !.ops = @ \cup {"write"}]]
  /\ UNCHANGED <<now, prev>>

\* lines 100-101: f.write(json.dumps(history)), the file is closed, return
gvh_write(p) ==
  /\ rp[p].pc = "gvh_write"
  /\ cache' = [exists |-> TRUE,
               content |-> file_write(cache.content, json_dumps(rp[p].history)),
               mtime |-> now, writer |-> p]
  /\ rp' = [rp EXCEPT ![p] = [@ EXCEPT !.pc = "index", !.returned = TRUE]]
  /\ UNCHANGED <<now, prev>>

\* lines 84-85
resolve_index(p) ==
  /\ rp[p].pc = "index"
  /\ rp' = [rp EXCEPT ![p] =
        [@ EXCEPT !.pc = "done",
                  !.result = resolve_latest_version(
                     rp[p].history,
                     int(IF rp[p].offset # <<>> THEN rp[p].offset ELSE <<"0">>))]]
  /\ UNCHANGED <<cache, now, prev>>

FetchErrors == {"URLError", "ValueError", "KeyError"}

\* get_version_history raised out of its refresh
GvhRefreshFailed(f) == f.neterr # "none"

\* The invocation is over; the next one may start.
resolve_finish(p) ==
  /\ rp[p].pc = "done"
  /\ prev' = [failed |-> GvhRefreshFailed(rp[p])]
  /\ rp' = [rp EXCEPT ![p] = IdleFrame]
  /\ UNCHANGED <<cache, now>>

\* Time passes between invocations.
Tick ==
  /\ \A p \in Procs : rp[p].pc = "idle"
  /\ \E t \in Times : t > now /\ now' = t
  /\ UNCHANGED <<cache, rp, prev>>

\* Cache files the program can have left behind: none, or a complete history
\* written at some time (possibly later than the clock now reads: the clock
\* was set back, or the directory is on a server whose clock is ahead).
InitCaches ==
  {NoFile} \cup {[exists |-> TRUE, content |-> json_dumps(h), mtime |-> m, writer |-> 0] :
                   h \in Histories, m \in Times}

\* ---------------------------------------------------------------- selector

\* The directory at depth k below the filesystem root, as its components.
Path(k) == [i \in 1..k |-> format_int(i)]

Dirs == {Path(k) : k \in 0..MaxDepth}

C_4_5_6 == <<" ", " ", "4", ".", "5", ".", "6", "\n">>

C_latest_1 == S_latest \o <<"-", "1", "\n">>

NoBv == [exists |-> FALSE, content |-> <<>>]

BvFiles == {NoBv} \cup {[exists |-> TRUE, content |-> c] : c \in {C_4_5_6, C_latest_1}}

Unset == [set |-> FALSE, val |-> <<>>]

Environs == {Unset} \cup {[set |-> TRUE, val |-> v] : v \in {L_empty, V_1_0, L_latest_1}}

IdleSel == [pc |-> "idle", root |-> <<>>, out |-> <<>>, probed |-> {}, readbv |-> FALSE]

\* A faulty variant of dirname: the parent of a directory is taken to be the directory itself.
dirname_mut(root) == root

\* line 70: os.path.dirname(root); the root directory is its own parent
dirname(root) == IF Len(root) = 0 THEN root ELSE SubSeq(root, 1, Len(root) - 1)

\* line 68: os.path.exists(os.path.join(root, 'WORKSPACE'))
has_workspace(root) == root \in fsys.ws

\* line 52: 'USE_BAZEL_VERSION' in os.environ
decide_env ==
  /\ sel.pc = "start"
  /\ sel' = IF environ.set
            THEN [sel EXCEPT !.pc = "done", !.out = environ.val]
            ELSE [sel EXCEPT !.pc = "walk", !.root = fsys.cwd]
  /\ UNCHANGED <<environ, fsys>>

\* lines 65-71, one call of the recursion
find_workspace_root ==
  /\ sel.pc = "walk"
  /\ LET root == sel.root
         new_root == dirname(root)
     IN  sel' = IF has_workspace(root)
                THEN [sel EXCEPT !.pc = "bazelversion", !.probed = @ \cup {root}]
                ELSE IF new_root # root
                THEN [sel EXCEPT !.root = new_root, !.probed = @ \cup {root}]
                ELSE [sel EXCEPT !.pc = "fallback", !.probed = @ \cup {root}]
  /\ UNCHANGED <<environ, fsys>>

\* lines 56-60 (and 62 when the file is absent)
decide_bazelversion ==
  /\ sel.pc = "bazelversion"
  /\ sel' = IF fsys.bv[sel.root].exists
            THEN [sel EXCEPT !.pc = "done", !.readbv = TRUE,
                             !.out = strip(fsys.bv[sel.root].content)]
            ELSE [sel EXCEPT !.pc = "done", !.out = S_latest]
  /\ UNCHANGED <<environ, fsys>>

\* line 62, no workspace root was found
decide_fallback ==
  /\ sel.pc = "fallback"
  /\ sel' = [sel EXCEPT !.pc = "done", !.out = S_latest]
  /\ UNCHANGED <<environ, fsys>>

\* ----------------------------------------------------------------- fetcher

\* Chunks the body of a download arrives in.
MaxChunks == 2

\* Mode of a file that open(path, 'wb') creates (0666 under umask 022).
MODE_0644 == 420

Machines == {"x86_64", "AMD64", "aarch64"}

Systems == {"Linux", "Darwin", "Windows", "FreeBSD"}

\* str.lower() on the names above
lower(name) ==
  CASE name = "AMD64" -> "amd64"
    [] name = "Linux" -> "linux"
    [] name = "Darwin" -> "darwin"
    [] name = "Windows" -> "windows"
    [] name = "FreeBSD" -> "freebsd"
    [] OTHER -> name

\* lines 141-145
normalized_machine_arch_name ==
  LET machine == lower(platform.machine)
  IN  IF machine = "amd64" THEN "x86_64" ELSE machine

\* lines 123-138: [error, name]
determine_bazel_filename(version) ==
  LET machine == normalized_machine_arch_name
      operating_system == lower(platform.system)
  IN  IF machine # "x86_64"
      THEN [error |-> "UnsupportedArchitecture", name |-> <<>>]
      ELSE IF operating_system \notin {"linux", "darwin", "windows"}
      THEN [error |-> "UnsupportedOperatingSystem", name |-> <<>>]
      ELSE [error |-> "none",
            name |-> <<"bazel-">> \o version \o <<"-", operating_system, "-", machine>>
                     \o (IF operating_system = "windows" THEN <<".exe">> ELSE <<>>)]

\* end of the run of digits of s that starts at position i (i - 1 if none)
RECURSIVE digits_end(_, _)
digits_end(s, i) ==
  IF i <= Len(s) /\ s[i] \in Digits THEN digits_end(s, i + 1) ELSE i - 1

\* lines 148-153: re.match(r'(\d*\.\d*(?:\.\d*)?)(rc\d)?', version); where it
\* does not match, .groups() on None raises AttributeError.
determine_url(version, bazel_filename) ==
  LET a == digits_end(version, 1)
  IN  IF a + 1 > Len(version) \/ version[a + 1] # "."
      THEN [error |-> "AttributeError", url |-> <<>>]
      ELSE LET b == digits_end(version, a + 2)
               c == IF b + 1 <= Len(version) /\ version[b + 1] = "."
                    THEN digits_end(version, b + 2) ELSE b
               base == SubSeq(version, 1, c)
               hasRc == /\ c + 3 <= Len(version)
                        /\ version[c + 1] = "r"
                        /\ version[c + 2] = "c"
                        /\ version[c + 3] \in Digits
               segment == IF hasRc THEN SubSeq(version, c + 1, c + 3) ELSE <<"release">>
           IN  [error |-> "none",
                url |-> <<"https://releases.bazel.build/">> \o base \o <<"/">>
                        \o segment \o <<"/">> \o bazel_filename]

\* os.path.join(directory, bazel_filename)
path_join(directory, name) == directory \o <<"/">> \o name

BinDirectory == <<"~/.bazelisk/bin">>

\* The body the download URL serves, in the chunks copyfileobj copies.
Body(url) == [k \in 1..MaxChunks |-> [url |-> url, part |-> k]]

NoBin == [exists |-> FALSE, content |-> <<>>, mode |-> 0]

IdleDl ==
  [pc |-> "idle", version |-> <<>>, filename |-> <<>>, url |-> <<>>,
   path |-> <<>>, pre |-> NoBin, net |-> 0, got |-> 0, result |-> NoResult]

\* A faulty variant of destination_exists: the file at the destination is never seen.
destination_exists_mut(path) == FALSE

\* line 160: os.path.exists(destination_path)
destination_exists(path) == path \in DOMAIN bin

\* the directory with the file at path set to f
put_file(path, f) ==
  [n \in DOMAIN bin \cup {path} |-> IF n = path THEN f ELSE bin[n]]

\* line 165: os.chmod(destination_path, 0o755)
chmod(f, mode) == [f EXCEPT !.mode = mode]

download_call(versions) ==
  /\ dl.pc = "idle"
  /\ \E version \in versions :
       dl' = [IdleDl EXCEPT !.pc = "locate", !.version = version]
  /\ UNCHANGED <<platform, bin>>

\* lines 157-159
dl_locate ==
  /\ dl.pc = "locate"
  /\ LET bazel_filename == determine_bazel_filename(dl.version)
         located == determine_url(dl.version, bazel_filename.name)
         destination_path == path_join(BinDirectory, bazel_filename.name)
     IN  dl' = IF bazel_filename.error # "none"
               THEN [dl EXCEPT !.pc = "raised",
                               !.result = Result(bazel_filename.error, <<>>, 0)]
               ELSE IF located.error # "none"
               THEN [dl EXCEPT !.pc = "raised",
                               !.result = Result(located.error, <<>>, 0)]
               ELSE [dl EXCEPT !.pc = "exists",
                               !.filename = bazel_filename.name,
                               !.url = located.url,
                               !.path = destination_path,
                               !.pre = IF destination_path \in DOMAIN bin
                                       THEN [exists |-> TRUE,
                                             content |-> bin[destination_path].content,
                                             mode |-> bin[destination_path].mode]
                                       ELSE NoBin]
  /\ UNCHANGED <<platform, bin>>

\* line 160
dl_exists ==
  /\ dl.pc = "exists"
  /\ dl' = [dl EXCEPT !.pc = IF destination_exists(dl.path) THEN "chmod" ELSE "urlopen"]
  /\ UNCHANGED <<platform, bin>>

\* lines 161-162: urlopen(url) answers, or raises URLError
dl_urlopen ==
  /\ dl.pc = "urlopen"
  /\ \/ dl' = [dl EXCEPT !.pc = "open", !.net = @ + 1]
     \/ dl' = [dl EXCEPT !.pc = "raised", !.net = @ + 1,
                         !.result = Result("URLError", <<>>, 0)]
  /\ UNCHANGED <<platform, bin>>

\* line 163: open(destination_path, 'wb') creates or truncates the file
dl_open ==
  /\ dl.pc = "open"
  /\ bin' = put_file(dl.path,
                     [content |-> <<>>,
                      mode |-> IF dl.path \in DOMAIN bin THEN bin[dl.path].mode
                               ELSE MODE_0644])
  /\ dl' = [dl EXCEPT !.pc = "copy"]
  /\ UNCHANGED platform

\* line 164: shutil.copyfileobj copies the next chunk, or the connection
\* breaks and what was copied stays in the file
dl_copy ==
  /\ dl.pc = "copy"
  /\ \/ /\ dl.got < MaxChunks
        /\ bin' = put_file(dl.path,
                           [bin[dl.path] EXCEPT
                              !.content = Append(@, Body(dl.url)[dl.got + 1])])
        /\ dl' = [dl EXCEPT !.got = @ + 1]
     \/ /\ dl.got < MaxChunks
        /\ dl' = [dl EXCEPT !.pc = "raised", !.result = Result("URLError", <<>>, 0)]
        /\ UNCHANGED bin
     \/ /\ dl.got = MaxChunks
        /\ dl' = [dl EXCEPT !.pc = "chmod"]
        /\ UNCHANGED bin
  /\ UNCHANGED platform

\* lines 165-166
dl_chmod ==
  /\ dl.pc = "chmod"
  /\ bin' = put_file(dl.path, chmod(bin[dl.path], MODE_0755))
  /\ dl' = [dl EXCEPT !.pc = "returned", !.result = Result("ok", dl.path, 0)]
  /\ UNCHANGED platform

\* The run is over; the next run may start.
dl_finish ==
  /\ dl.pc \in {"returned", "raised"}
  /\ dl' = IdleDl
  /\ UNCHANGED <<platform, bin>>

\* ---------------------------------------------------------------- launcher

\* What Popen.wait() can return: the child's exit code, or -N for a child
\* that signal N killed (2 is SIGINT, 9 is SIGKILL).
ReturnCodes == {0, 1, 8, 255, 0 - 2, 0 - 9}

NoChild == [state |-> "none", code |-> 0]

IdleEx == [pc |-> "idle", ret |-> 0, spawned |-> 0, caught |-> 0, stray |-> FALSE]

\* line 212: sys.exit(status) leaves the low byte of status to the parent
sys_exit(status) == status % EXIT_WIDTH

\* line 182: subprocess.Popen starts the child, or raises OSError
ex_popen ==
  /\ ex.pc = "popen"
  /\ \/ /\ child' = [state |-> "running", code |-> 0]
        /\ ex' = [ex EXCEPT !.pc = "wait", !.spawned = @ + 1]
     \/ /\ ex' = [ex EXCEPT !.pc = "raised"]
        /\ UNCHANGED child

\* The child ends, by itself or by a signal.
child_exit ==
  /\ child.state = "running"
  /\ \E code \in ReturnCodes : child' = [state |-> "exited", code |-> code]
  /\ UNCHANGED ex

\* lines 185-186: a KeyboardInterrupt is raised inside p.wait()
ex_interrupt ==
  /\ ex.pc = "wait"
  /\ ex.caught < MaxInterrupts
  /\ ex' = [ex EXCEPT !.pc = "except", !.caught = @ + 1]
  /\ UNCHANGED child

\* A faulty variant of ex_pass: the handler returns instead of waiting again.
ex_pass_mut ==
  /\ ex.pc = "except"
  /\ ex' = [ex EXCEPT !.pc = "returned", !.ret = 1]
  /\ UNCHANGED child

\* lines 186-189: the handler passes and the loop waits again
ex_pass ==
  /\ ex.pc = "except"
  /\ ex' = [ex EXCEPT !.pc = "wait"]
  /\ UNCHANGED child

\* A KeyboardInterrupt raised while the handler runs, outside the try,
\* leaves execute_bazel.
ex_stray_interrupt ==
  /\ ex.pc = "except"
  /\ ex.caught < MaxInterrupts
  /\ ex' = [ex EXCEPT !.pc = "raised", !.stray = TRUE]
  /\ UNCHANGED child

\* line 185: return p.wait()
ex_wait_return ==
  /\ ex.pc = "wait"
  /\ child.state = "exited"
  /\ ex' = [ex EXCEPT !.pc = "returned", !.ret = child.code]
  /\ UNCHANGED child

\* -------------------------------------------------------------------- main

\* Exit status of the interpreter when an exception leaves main.
EXIT_UNCAUGHT == 1

\* lines 196-200: maybe_makedirs(bazelisk_directory), then the selector
main_select ==
  /\ stage = "start"
  /\ \/ /\ stage' = "select"
        /\ trace' = Append(trace, "select")
        /\ sel' = [IdleSel EXCEPT !.pc = "start"]
        /\ UNCHANGED exitStatus
     \/ /\ stage' = "exit"
        /\ exitStatus' = EXIT_UNCAUGHT
        /\ UNCHANGED <<trace, sel>>
  /\ UNCHANGED <<environ, fsys, resVars, dlVars, exVars>>

\* lines 201-202
main_resolve ==
  /\ stage = "select"
  /\ sel.pc = "done"
  /\ stage' = "resolve"
  /\ trace' = Append(trace, "resolve")
  /\ rp' = [rp EXCEPT ![1] = [IdleFrame EXCEPT !.pc = "resolve",
                                               !.version = sel.out,
                                               !.pre = cache]]
  /\ UNCHANGED <<exitStatus, selVars, cache, now, prev, dlVars, exVars>>

\* A faulty variant of propagates: the exception is swallowed and main goes on.
propagates_mut(result) == FALSE

\* lines 201-202: an exception raised in the resolver is not caught, so
\* main goes on only with a returned value
propagates(result) == result.kind # "ok"

\* lines 204-206: maybe_makedirs(bazel_directory), then the download
main_download ==
  /\ stage = "resolve"
  /\ rp[1].pc = "done"
  /\ ~propagates(rp[1].result)
  /\ \/ /\ stage' = "download"
        /\ trace' = Append(trace, "download")
        /\ dl' = [IdleDl EXCEPT !.pc = "locate", !.version = rp[1].result.value]
        /\ UNCHANGED exitStatus
     \/ /\ stage' = "exit"
        /\ exitStatus' = EXIT_UNCAUGHT
        /\ UNCHANGED <<trace, dl>>
  /\ UNCHANGED <<selVars, resVars, platform, bin, exVars>>

\* line 208
main_execute ==
  /\ stage = "download"
  /\ dl.pc = "returned"
  /\ stage' = "execute"
  /\ trace' = Append(trace, "execute")
  /\ ex' = [IdleEx EXCEPT !.pc = "popen"]
  /\ UNCHANGED <<exitStatus, selVars, resVars, dlVars, child>>

\* an exception left the stage main is in
stage_raised ==
  \/ stage = "resolve" /\ rp[1].pc = "done" /\ propagates(rp[1].result)
  \/ stage = "download" /\ dl.pc = "raised"
  \/ stage = "execute" /\ ex.pc = "raised"

\* the exception propagates out of main: traceback, exit status 1
main_abort ==
  /\ stage_raised
  /\ stage' = "exit"
  /\ exitStatus' = EXIT_UNCAUGHT
  /\ UNCHANGED <<trace, selVars, resVars, dlVars, exVars>>

\* line 212: sys.exit(main())
main_exit ==
  /\ stage = "execute"
  /\ ex.pc = "returned"
  /\ stage' = "exit"
  /\ exitStatus' = sys_exit(ex.ret)
  /\ UNCHANGED <<trace, selVars, resVars, dlVars, exVars>>

\* ---------------------------------------------------------- specifications

\* What a step of one component leaves alone.
OnlySel == UNCHANGED <<resVars, dlVars, exVars, mainVars>>

OnlyRes == UNCHANGED <<selVars, dlVars, exVars, mainVars>>

OnlyDl == UNCHANGED <<selVars, resVars, exVars, mainVars>>

OnlyEx == UNCHANGED <<selVars, resVars, dlVars, mainVars>>

SelIdle ==
  /\ environ = Unset
  /\ fsys = [cwd |-> <<>>, ws |-> {}, bv |-> [d \in Dirs |-> NoBv]]
  /\ sel = IdleSel

ResIdle ==
  /\ cache = NoFile
  /\ now = 0
  /\ rp = [p \in Procs |-> IdleFrame]
  /\ prev = [failed |-> FALSE]

DlIdle ==
  /\ platform = [machine |-> "x86_64", system |-> "Linux"]
  /\ bin = <<>>
  /\ dl = IdleDl

ExIdle ==
  /\ child = NoChild
  /\ ex = IdleEx

MainIdle(s) ==
  /\ stage = s
  /\ trace = <<>>
  /\ exitStatus = 0 - 1

\* The selector alone, over every small directory tree and environment.
InitSelect ==
  /\ environ \in Environs
  /\ fsys \in [cwd : Dirs, ws : SUBSET Dirs, bv : [Dirs -> BvFiles]]
  /\ sel = [IdleSel EXCEPT !.pc = "start"]
  /\ ResIdle /\ DlIdle /\ ExIdle /\ MainIdle("select")

NextSelect ==
  \/ decide_env /\ OnlySel
  \/ find_workspace_root /\ OnlySel
  \/ decide_bazelversion /\ OnlySel
  \/ decide_fallback /\ OnlySel

\* The selector is straight-line code: each step it can take, it takes.
SpecSelect == InitSelect /\ [][NextSelect]_vars /\ WF_vars(NextSelect)

\* The resolver, one invocation after another, as time passes.
InitResolve ==
  /\ cache \in InitCaches
  /\ now \in Times
  /\ rp = [p \in Procs |-> IdleFrame]
  /\ prev = [failed |-> FALSE]
  /\ SelIdle /\ DlIdle /\ ExIdle /\ MainIdle("resolve")

NextResolve ==
  \/ resolve_call(1, Labels) /\ OnlyRes
  \/ resolve_version_label_to_number(1) /\ OnlyRes
  \/ gvh_exists(1) /\ OnlyRes
  \/ gvh_mtime(1) /\ OnlyRes
  \/ gvh_read(1) /\ OnlyRes
  \/ gvh_fetch(1) /\ OnlyRes
  \/ gvh_open(1) /\ OnlyRes
  \/ gvh_write(1) /\ OnlyRes
  \/ resolve_index(1) /\ OnlyRes
  \/ resolve_finish(1) /\ OnlyRes
  \/ Tick /\ OnlyRes

SpecResolve == InitResolve /\ [][NextResolve]_vars

\* Two invocations resolving "latest" at once on one cache directory.
InitRace == InitResolve

NextRace ==
  \E p \in Procs :
    \/ resolve_call(p, {S_latest}) /\ OnlyRes
    \/ resolve_version_label_to_number(p) /\ OnlyRes
    \/ gvh_exists(p) /\ OnlyRes
    \/ gvh_mtime(p) /\ OnlyRes
    \/ gvh_read(p) /\ OnlyRes
    \/ gvh_fetch(p) /\ OnlyRes
    \/ gvh_open(p) /\ OnlyRes
    \/ gvh_write(p) /\ OnlyRes
    \/ resolve_index(p) /\ OnlyRes

SpecRace == InitRace /\ [][NextRace]_vars

\* The fetcher, one run after another, on one bin directory.
FetchVersions == {V_1_0, L_0_20_0rc1, L_empty}

InitFetch ==
  /\ platform \in [machine : Machines, system : Systems]
  /\ bin = <<>>
  /\ dl = IdleDl
  /\ SelIdle /\ ResIdle /\ ExIdle /\ MainIdle("download")

NextFetch ==
  \/ download_call(FetchVersions) /\ OnlyDl
  \/ dl_locate /\ OnlyDl
  \/ dl_exists /\ OnlyDl
  \/ dl_urlopen /\ OnlyDl
  \/ dl_open /\ OnlyDl
  \/ dl_copy /\ OnlyDl
  \/ dl_chmod /\ OnlyDl
  \/ dl_finish /\ OnlyDl

SpecFetch == InitFetch /\ [][NextFetch]_vars

\* The launcher and the exit of the tool.
InitExec ==
  /\ child = NoChild
  /\ ex = [IdleEx EXCEPT !.pc = "popen"]
  /\ SelIdle /\ ResIdle /\ DlIdle /\ MainIdle("execute")

NextExec ==
  \/ ex_popen /\ OnlyEx
  \/ child_exit /\ OnlyEx
  \/ ex_interrupt /\ OnlyEx
  \/ ex_pass /\ OnlyEx
  \/ ex_stray_interrupt /\ OnlyEx
  \/ ex_wait_return /\ OnlyEx
  \/ main_exit
  \/ main_abort

\* The interpreter keeps running the launcher's code; when the child exits is
\* up to the child.
SpecExec ==
  /\ InitExec
  /\ [][NextExec]_vars
  /\ WF_vars(ex_popen /\ OnlyEx)
  /\ WF_vars(ex_pass /\ OnlyEx)
  /\ WF_vars(ex_wait_return /\ OnlyEx)
  /\ WF_vars(main_exit)
  /\ WF_vars(main_abort)

\* One invocation of main.
MainFsys ==
  {[cwd |-> Path(1), ws |-> w, bv |-> [d \in Dirs |-> b]] :
     w \in {{}, {Path(0)}, {Path(1)}}, b \in BvFiles}

MainCaches ==
  {NoFile,
   [exists |-> TRUE, content |-> json_dumps(<<V_1_0>>), mtime |-> 0, writer |-> 0]}

InitMain ==
  /\ environ \in Environs
  /\ fsys \in MainFsys
  /\ sel = IdleSel
  /\ cache \in MainCaches
  /\ now \in {0, ONE_HOUR}
  /\ rp = [p \in Procs |-> IdleFrame]
  /\ prev = [failed |-> FALSE]
  /\ platform \in {[machine |-> "AMD64", system |-> "Linux"],
                   [machine |-> "aarch64", system |-> "Linux"],
                   [machine |-> "x86_64", system |-> "FreeBSD"]}
  /\ bin = <<>>
  /\ dl = IdleDl
  /\ ExIdle /\ MainIdle("start")

NextMain ==
  \/ main_select
  \/ decide_env /\ OnlySel
  \/ find_workspace_root /\ OnlySel
  \/ decide_bazelversion /\ OnlySel
  \/ decide_fallback /\ OnlySel
  \/ main_resolve
  \/ resolve_version_label_to_number(1) /\ OnlyRes
  \/ gvh_exists(1) /\ OnlyRes
  \/ gvh_mtime(1) /\ OnlyRes
  \/ gvh_read(1) /\ OnlyRes
  \/ gvh_fetch(1) /\ OnlyRes
  \/ gvh_open(1) /\ OnlyRes
  \/ gvh_write(1) /\ OnlyRes
  \/ resolve_index(1) /\ OnlyRes
  \/ main_download
  \/ dl_locate /\ OnlyDl
  \/ dl_exists /\ OnlyDl
  \/ dl_urlopen /\ OnlyDl
  \/ dl_open /\ OnlyDl
  \/ dl_copy /\ OnlyDl
  \/ dl_chmod /\ OnlyDl
  \/ main_execute
  \/ ex_popen /\ OnlyEx
  \/ child_exit /\ OnlyEx
  \/ ex_interrupt /\ OnlyEx
  \/ ex_pass /\ OnlyEx
  \/ ex_stray_interrupt /\ OnlyEx
  \/ ex_wait_return /\ OnlyEx
  \/ main_exit
  \/ main_abort

SpecMain == InitMain /\ [][NextMain]_vars

\* ------------------------------------------------------------------ claims

\* get_version_history was called and has decided between cache and refresh
GvhDecided(f) ==
  /\ "exists" \in f.ops
  /\ f.pc \in {"gvh_read", "gvh_fetch", "gvh_open", "gvh_write", "index", "done"}

\* the cache file as the call found it was less than an hour from the clock
FoundFresh(f) ==
  /\ f.pre.exists
  /\ f.t - f.pre.mtime < ONE_HOUR
  /\ f.pre.mtime - f.t < ONE_HOUR

\* C1: get_version_history, for every read time T' and modification time T of
\* the cache file: if the file exists and |T' - T| < 3600 the cached list is
\* returned verbatim, no network call is made and the file is not rewritten;
\* if |T' - T| >= 3600 or the file does not exist, a call that returns has
\* fetched the history once, has overwritten the cache file with the fetched
\* list, and returns the fetched list.
C1_CacheFreshness ==
  LET f == rp[1]
  IN  GvhDecided(f) =>
        /\ FoundFresh(f) =>
             /\ f.net = 0
             /\ cache = f.pre
             /\ f.pc \in {"index", "done"} => f.returned
             /\ f.returned => json_dumps(f.history) = f.pre.content
        /\ ~FoundFresh(f) /\ f.returned =>
             /\ f.net = 1
             /\ "write" \in f.ops
             /\ f.history = f.fetched
             /\ cache.exists
             /\ cache.content = json_dumps(f.fetched)

\* A cache file exactly one hour old was refreshed: the call fetched once,
\* returned, and the file's text is no longer what the call found.
C1_Witness ==
  LET f == rp[1]
  IN  /\ f.returned
      /\ f.pre.exists
      /\ f.t - f.pre.mtime = ONE_HOUR
      /\ f.net = 1
      /\ cache.content # f.pre.content

\* The offsets N for which the label is "latest" (N = 0) or "latest-<digits>"
\* (N the digits' value), up to one final newline, which '$' lets pass.
LatestOffsets(v) ==
  LET n == Len(S_latest)
      bodies == {v} \cup (IF Len(v) > 0 /\ v[Len(v)] = "\n"
                          THEN {SubSeq(v, 1, Len(v) - 1)} ELSE {})
  IN  {0 : b \in {x \in bodies : x = S_latest}}
      \cup {int(SubSeq(b, n + 2, Len(b))) :
              b \in {x \in bodies :
                       /\ Len(x) >= n + 2
                       /\ SubSeq(x, 1, n + 1) = S_latest \o <<"-">>
                       /\ \A k \in (n + 2)..Len(x) : x[k] \in Digits}}

\* C2: resolve_version_label_to_number on a label containing "latest": if the
\* label does not match ^latest(-\d+)?$ it fails with InvalidVersionLabel
\* (before the cache or the network is touched); if it matches with offset N
\* and the history was obtained, the result is history[N] when
\* N < len(history) and otherwise VersionOffsetOutOfRange, whose message
\* reports the label of N and len(history).  The one other way out is the
\* exception get_version_history itself raised.
C2_LatestResolution ==
  LET f == rp[1]
      ns == LatestOffsets(f.version)
  IN  f.pc = "done" /\ Contains(S_latest, f.version) =>
        IF ns = {}
        THEN /\ f.result = Result("InvalidVersionLabel", f.version, 0)
             /\ f.ops = {}
             /\ f.net = 0
        ELSE LET N == CHOOSE k \in ns : TRUE
             IN  IF f.returned
                 THEN IF N < Len(f.history)
                      THEN f.result = Result("ok", f.history[N + 1], 0)
                      ELSE f.result =
                             Result("VersionOffsetOutOfRange",
                                    IF N = 0 THEN S_latest
                                    ELSE S_latest \o <<"-">> \o format_int(N),
                                    Len(f.history))
                 ELSE f.result.kind \in FetchErrors

\* "latest-02" picked the third newest of three releases.
C2_Witness ==
  LET f == rp[1]
  IN  /\ f.pc = "done"
      /\ f.version = L_latest_02
      /\ Len(f.history) = 3
      /\ f.result = Result("ok", V_0_9, 0)

\* C3: for a label that does not contain "latest", resolution returns the
\* label unchanged, makes no network call, and neither reads, creates nor
\* modifies the cache file.
C3_LiteralUnchanged ==
  LET f == rp[1]
  IN  f.pc # "idle" /\ ~Contains(S_latest, f.version) =>
        /\ f.net = 0
        /\ f.ops = {}
        /\ cache = f.pre
        /\ f.pc = "done" => f.result = Result("ok", f.version, 0)

\* "late" came back unchanged although a stale cache file was there.
C3_Witness ==
  LET f == rp[1]
  IN  /\ f.pc = "done"
      /\ f.version = L_late
      /\ f.result.value = L_late
      /\ cache.exists
      /\ now - cache.mtime >= ONE_HOUR

\* What holds of a refresh that failed: the call ends with the error the
\* fetch raised, returns no history, has not read the cache file, and the
\* file is as the call found it.
C9_FailedRefresh(f) ==
  f.neterr # "none" =>
    /\ f.pc = "done"
    /\ f.result = Result(f.neterr, <<>>, 0)
    /\ ~f.returned
    /\ f.history = <<>>
    /\ "read" \notin f.ops
    /\ "write" \notin f.ops
    /\ cache = f.pre

\* the invocation went for the refresh (it did not read the cache)
WentToRefresh(f) ==
  /\ f.pc # "gvh_read"
  /\ "read" \notin f.ops
  /\ f.pc \in {"gvh_open", "gvh_write", "index", "done"} => f.net = 1

\* C9 as claimed: a failed refresh fails the call, never returns the stale
\* history and leaves the cache file as it was, so the next invocation
\* attempts the refresh again.
C9_Original ==
  /\ C9_FailedRefresh(rp[1])
  /\ prev.failed /\ GvhDecided(rp[1]) => WentToRefresh(rp[1])

\* C9 amended: a failed refresh fails the call, never returns the stale
\* history and leaves the cache file as it was; the next invocation attempts
\* the refresh again if the file is still absent or still an hour or more
\* from the clock it reads.
C9_FailedRefreshPropagates ==
  /\ C9_FailedRefresh(rp[1])
  /\ prev.failed /\ GvhDecided(rp[1]) /\ ~FoundFresh(rp[1]) => WentToRefresh(rp[1])

\* Two refreshes in a row failed on a stale cache file, which is untouched.
C9_Witness ==
  LET f == rp[1]
  IN  /\ prev.failed
      /\ f.neterr = "URLError"
      /\ f.pre.exists
      /\ f.pc = "done"
      /\ cache = f.pre

\* The directory the upward walk from the current directory must stop at:
\* the deepest ancestor (or the directory itself) that holds WORKSPACE.
MarkedDepths == {k \in 0..Len(fsys.cwd) : SubSeq(fsys.cwd, 1, k) \in fsys.ws}

NearestDepth == CHOOSE k \in MarkedDepths : \A j \in MarkedDepths : j <= k

\* t is s without its leading and trailing whitespace
IsTrimmed(s, t) ==
  \E i \in 1..(Len(s) + 1) : \E j \in 0..Len(s) :
    /\ t = SubSeq(s, i, j)
    /\ \A k \in 1..(i - 1) : s[k] \in Whitespace
    /\ \A k \in (j + 1)..Len(s) : s[k] \in Whitespace
    /\ Len(t) > 0 => t[1] \notin Whitespace /\ t[Len(t)] \notin Whitespace

\* What the lookup of .bazelversion, then the fallback, must give.
LookupGives(out) ==
  IF MarkedDepths # {} /\ fsys.bv[SubSeq(fsys.cwd, 1, NearestDepth)].exists
  THEN IsTrimmed(fsys.bv[SubSeq(fsys.cwd, 1, NearestDepth)].content, out)
  ELSE out = S_latest

\* The directories the walk must have looked into.
WalkedDirs ==
  {SubSeq(fsys.cwd, 1, k) :
     k \in (IF MarkedDepths # {} THEN NearestDepth ELSE 0)..Len(fsys.cwd)}

\* C4 as claimed: the selector returns USE_BAZEL_VERSION verbatim, without
\* searching for a project root or reading .bazelversion, exactly when the
\* variable is set and non-empty; when it is unset or set to the empty string
\* the selector falls through to the .bazelversion lookup and the fallback.
C4_Override ==
  sel.pc = "done" =>
    IF environ.set /\ environ.val # <<>>
    THEN /\ sel.out = environ.val
         /\ sel.probed = {}
         /\ ~sel.readbv
    ELSE /\ LookupGives(sel.out)
         /\ sel.probed = WalkedDirs

C6_DownloadOnce ==
  dl.path # <<>> =>
    /\ dl.pre.exists =>
         /\ dl.net = 0
         /\ dl.path \in DOMAIN bin
         /\ bin[dl.path].content = dl.pre.content
    /\ ~dl.pre.exists /\ dl.pc = "returned" =>
         /\ dl.net = 1
         /\ bin[dl.path].content = Body(dl.url)
    /\ dl.pc = "returned" =>
         /\ bin[dl.path].mode = MODE_0755
         /\ dl.result = Result("ok", BinDirectory \o <<"/">> \o dl.filename, 0)

\* A run returned the file an earlier, broken download had left incomplete.
C6_Witness ==
  /\ dl.pc = "returned"
  /\ dl.pre.exists
  /\ Len(dl.pre.content) = 1
  /\ dl.pre.mode = MODE_0644
  /\ dl.net = 0
  /\ bin[dl.path].content = dl.pre.content
  /\ bin[dl.path].mode = MODE_0755

\* What holds of execute_bazel whatever the child's return code is.
C7_Launcher ==
  /\ ex.spawned <= 1
  /\ ex.pc = "returned" =>
       /\ ex.spawned = 1
       /\ child.state = "exited"
       /\ ex.ret = child.code
  /\ ex.pc = "raised" => ex.stray \/ ex.spawned = 0

StageOrder == <<"select", "resolve", "download", "execute">>

Started(s) == \E i \in 1..Len(trace) : trace[i] = s

\* C8: in every invocation of main the stages start in the order select,
\* resolve, download, execute, each at most once; the child is started only
\* after selection, resolution and the download (mode 0755 set) have ended
\* without error; and if an earlier stage fails no later stage starts, no
\* child is started, nothing is tried again and the exit status is not 0.
C8_Pipeline ==
  /\ Len(trace) <= Len(StageOrder)
  /\ trace = SubSeq(StageOrder, 1, Len(trace))
  /\ rp[1].net <= 1 /\ dl.net <= 1 /\ ex.spawned <= 1
  /\ ex.spawned > 0 \/ child.state # "none" =>
       /\ trace = StageOrder
       /\ sel.pc = "done"
       /\ rp[1].pc = "done" /\ rp[1].version = sel.out /\ rp[1].result.kind = "ok"
       /\ dl.pc = "returned" /\ dl.version = rp[1].result.value
       /\ dl.path \in DOMAIN bin /\ bin[dl.path].mode = MODE_0755
  /\ rp[1].result.kind \notin {"none", "ok"} =>
       /\ ~Started("download") /\ ~Started("execute")
       /\ ex.spawned = 0 /\ child.state = "none"
  /\ dl.pc = "raised" =>
       /\ ~Started("execute")
       /\ ex.spawned = 0 /\ child.state = "none"
  /\ stage = "exit" /\ (trace # StageOrder \/ ex.pc # "returned") =>
       /\ exitStatus # 0
       /\ ex.pc = "raised" \/ (ex.spawned = 0 /\ child.state = "none")

\* "latest-1" with one known release: the run ended with status 1 after the
\* resolver, and nothing was downloaded or started.
C8_Witness ==
  /\ stage = "exit"
  /\ rp[1].result.kind = "VersionOffsetOutOfRange"
  /\ trace = <<"select", "resolve">>
  /\ exitStatus = 1
  /\ bin = <<>>

\* C10 as claimed: whatever the interleaving of two invocations, each one that
\* reads the cache file reads a complete history some refresh wrote, and once
\* both have finished the file holds exactly the history of its last writer.
C10_RaceHarmless ==
  /\ \A p \in Procs :
       "read" \in rp[p].ops => rp[p].returned /\ rp[p].history \in Histories
  /\ (\A p \in Procs : rp[p].pc = "done") /\ cache.writer # 0 =>
       cache.content = json_dumps(rp[cache.writer].fetched)

====
